---- MODULE Spec2Model ----
(***************************************************************************)
(* ConvertBot (src/main.py): the image conversion engine                   *)
(* (ImageConverter) and the handler that runs a batch of conversions for   *)
(* one chat (formats_handler / handle_conversion_completion).              *)
(*                                                                         *)
(* A pixel buffer is a record of width, height, colour mode and the       *)
(* presence of 'transparency' in its info.  Bytes written to an output     *)
(* stream are modelled as a sequence of chunks, one chunk per write of an  *)
(* encoder, each naming the procedure that wrote it and whether the write  *)
(* was completed.  An exception raised by a library call (PIL, Telegram    *)
(* API) is a choice of the environment: the oracle of a call names the     *)
(* step that raises in each attempt.                                       *)
(***************************************************************************)
EXTENDS Integers, Sequences, FiniteSets, TLC

VARIABLES
    img,        \* the pixel buffer the engine is called on
    call,       \* the last call of convert_to_format and what it returned
    fsm_state,  \* FSMContext state of the chat
    data,       \* FSMContext data of the chat
    batch,      \* the running handle_conversion_completion, its locals
    notice      \* what photo_handler last told the user about an upload

vars == <<img, call, fsm_state, data, batch, notice>>

----------------------------------------------------------------------------
(* Configuration *)

MAX_IMAGE_DIMENSION == 4096

\* SUPPORTED_FORMATS with an identifier FORMAT_MAP does not have
MutSUPPORTED_FORMATS ==
    <<"PNG", "JPEG", "WEBP", "BMP", "TIF", "TIFF", "GIF", "ICO", "PDF", "JP2", "APNG", "HEIC">>

\* Config.__post_init__, lines 41-44
SUPPORTED_FORMATS ==
    <<"PNG", "JPEG", "WEBP", "BMP", "TIF", "TIFF", "GIF", "ICO", "PDF", "JP2", "APNG">>

FORMAT_MAP ==
    [f \in {"PNG", "JPEG", "WEBP", "BMP", "TIF", "TIFF", "GIF", "ICO", "PDF", "JP2", "APNG"} |->
        CASE f = "PNG"  -> <<"PNG", "png">>
          [] f = "JPEG" -> <<"JPEG", "jpg">>
          [] f = "WEBP" -> <<"WEBP", "webp">>
          [] f = "BMP"  -> <<"BMP", "bmp">>
          [] f = "TIF"  -> <<"TIFF", "tif">>
          [] f = "TIFF" -> <<"TIFF", "tiff">>
          [] f = "GIF"  -> <<"GIF", "gif">>
          [] f = "ICO"  -> <<"ICO", "ico">>
          [] f = "PDF"  -> <<"PDF", "pdf">>
          [] f = "JP2"  -> <<"JPEG2000", "jp2">>
          [] f = "APNG" -> <<"PNG", "apng">>]

----------------------------------------------------------------------------
(* Inputs of the model *)

\* Widths and heights the engine is called with: the examples of the
\* specification and the thresholds of the icon encoder.
DimSamples ==
    {1, 10, 15, 16, 32, 64, 100, 128, 150, 256, 300, 400, 500, MAX_IMAGE_DIMENSION}

\* PIL modes; CMYK stands for every mode other than the five the code names.
Modes == {"RGB", "RGBA", "P", "L", "LA", "CMYK"}

\* Format identifiers the engine is called with; the last three are not keys
\* of FORMAT_MAP.
FormatIds == DOMAIN FORMAT_MAP \cup {"XYZ", "png", "JPG"}

\* Texts of the exception a library call raises.
ErrTexts == {"", "cannot write mode"}

----------------------------------------------------------------------------
(* Pixel buffers and the PIL operations the engine uses *)

Min(a, b) == IF a < b THEN a ELSE b

Max(a, b) == IF a > b THEN a ELSE b

\* x in seq
InSeq(x, seq) == \E k \in 1..Len(seq) : seq[k] = x

PixelBuffer(w, h, m, t) == [width |-> w, height |-> h, mode |-> m, transparency |-> t]

NoImage == PixelBuffer(0, 0, "none", FALSE)

\* Image.crop((left, top, right, bottom)): a new image of the box's size
crop(im, box) == [im EXCEPT !.width = box[3] - box[1], !.height = box[4] - box[2]]

\* Image.resize((w, h), LANCZOS): a new image of the given size
resize(im, w, h) == [im EXCEPT !.width = w, !.height = h]

\* Image.convert(mode): a new image of the given mode
convert(im, m) == [im EXCEPT !.mode = m]

\* The steps of a procedure that run when the step named fail raises: the
\* planned steps up to and including that step, all of them if it is not
\* among them.
Executed(plan, fail) ==
    IF \E i \in 1..Len(plan) : plan[i] = fail
    THEN SubSeq(plan, 1, CHOOSE i \in 1..Len(plan) : plan[i] = fail)
    ELSE plan

\* no step raises
Completed(plan, fail) == \A i \in 1..Len(plan) : plan[i] # fail

\* the step is run (and may be the one that raises)
Reached(plan, fail, step) ==
    /\ \E i \in 1..Len(plan) : plan[i] = step
    /\ \A i \in 1..Len(plan) : \A j \in 1..Len(plan) :
         (plan[i] = fail /\ plan[j] = step) => j <= i

\* Image.save(output, ...): the bytes it appends to the stream.  A save that
\* raises may have written part of its bytes before (wrote).
Chunk(proc, container, im, complete) ==
    [by |-> proc, container |-> container, width |-> im.width, height |-> im.height,
     mode |-> im.mode, complete |-> complete]

save(output, proc, container, im, plan, fail, wrote) ==
    IF ~Reached(plan, fail, "save") THEN output
    ELSE IF fail # "save" THEN Append(output, Chunk(proc, container, im, TRUE))
    ELSE IF wrote THEN Append(output, Chunk(proc, container, im, FALSE))
    ELSE output

\* What one attempt did: the steps it ran, the size it chose, the box it
\* cropped, the image it handed to the encoder with the sizes argument, the
\* mask of its compositing.
Attempt(proc, plan, fail, size, box, enc, sizes, mask) ==
    [proc |-> proc, ops |-> Executed(plan, fail), ok |-> Completed(plan, fail),
     size |-> size,
     box |-> IF Reached(plan, fail, "crop") THEN box ELSE <<>>,
     enc |-> IF Reached(plan, fail, "save") THEN enc ELSE NoImage,
     sizes |-> sizes, mask |-> mask]

\* One attempt: whether it completed, the stream after it, what it did
Run(proc, container, plan, fail, wrote, output, size, box, enc, sizes, mask) ==
    [ok |-> Completed(plan, fail),
     output |-> save(output, proc, container, enc, plan, fail, wrote),
     attempt |-> Attempt(proc, plan, fail, size, box, enc, sizes, mask)]

----------------------------------------------------------------------------
(* ImageConverter._convert_to_ico *)

\* IcoSize with strict comparisons
MutIcoSize(original_size) ==
    IF original_size > 256 THEN 256
    ELSE IF original_size > 128 THEN 128
    ELSE IF original_size > 64 THEN 64
    ELSE IF original_size > 32 THEN 32
    ELSE IF original_size > 16 THEN original_size ELSE 16

\* lines 198-212: the one size of the icon, from the smaller dimension
IcoSize(original_size) ==
    IF original_size >= 256 THEN 256
    ELSE IF original_size >= 128 THEN 128
    ELSE IF original_size >= 64 THEN 64
    ELSE IF original_size >= 32 THEN 32
    ELSE IF original_size >= 16 THEN original_size ELSE 16

\* SquareBox without the halving of the margin
MutSquareBox(im) ==
    <<im.width - Min(im.width, im.height), im.height - Min(im.width, im.height),
      im.width, im.height>>

\* lines 223-227 and 292-296: (left, top, right, bottom) of the centre square
SquareBox(im) ==
    <<(im.width - Min(im.width, im.height)) \div 2,
      (im.height - Min(im.width, im.height)) \div 2,
      (im.width - Min(im.width, im.height)) \div 2 + Min(im.width, im.height),
      (im.height - Min(im.width, im.height)) \div 2 + Min(im.width, im.height)>>

\* lines 221-230 and 291-299: the square the procedures resize
square_img(im) == IF im.width # im.height THEN crop(im, SquareBox(im)) ELSE im

\* IcoMode converting to RGBA the palette images only
MutIcoMode(mode) == IF mode = "P" THEN "RGBA" ELSE mode

\* lines 237-251: the mode of the image the primary procedure saves
IcoMode(mode) ==
    IF mode = "RGBA" THEN "RGBA"
    ELSE IF mode = "RGB" THEN "RGB"
    ELSE IF mode = "P" THEN "RGBA"
    ELSE IF mode \in {"L", "LA"} THEN "RGBA"
    ELSE "RGBA"

\* lines 219-234: the image of the one size
PrimaryResized(im, size) ==
    IF im.width # size \/ im.height # size
    THEN resize(square_img(im), size, size)
    ELSE im

\* lines 219-253: the steps of the primary procedure
PrimaryPlan(im, size) ==
    (IF (im.width # size \/ im.height # size) /\ im.width # im.height
     THEN <<"crop">> ELSE <<>>)
    \o (IF im.width # size \/ im.height # size THEN <<"resize">> ELSE <<"copy">>)
    \o (IF im.mode \notin {"RGBA", "RGB"} THEN <<"convert">> ELSE <<>>)
    \o <<"save">>

\* lines 256-278: first_image.save(output, format='ICO', sizes=sizes_tuple,
\* bitmap_format='bmp')
PrimarySave(im, output, fail, wrote, size, first_image) ==
    Run("primary", "ICO", PrimaryPlan(im, size), fail, wrote, output, size, SquareBox(im),
        first_image, <<<<first_image.width, first_image.height>>>>, "")

\* lines 196-280: the primary procedure.  fail names the step that raises.
IcoPrimary(im, output, fail, wrote) ==
    PrimarySave(im, output, fail, wrote, IcoSize(Min(im.width, im.height)),
                convert(PrimaryResized(im, IcoSize(Min(im.width, im.height))),
                        IcoMode(im.mode)))

\* SimpleSize capped at 128
MutSimpleSize(im) == Min(128, Min(im.width, im.height))

\* line 288
SimpleSize(im) == Min(256, Min(im.width, im.height))

\* FallbackMode without the test of the transparency entry of info
MutFallbackMode(im) ==
    IF im.mode \notin {"RGB", "RGBA"}
    THEN IF im.mode \in {"LA", "P"} THEN "RGBA" ELSE "RGB"
    ELSE im.mode

\* lines 308-312: the mode of the image the fallback procedure saves
FallbackMode(im) ==
    IF im.mode \notin {"RGB", "RGBA"}
    THEN IF im.transparency \/ im.mode \in {"LA", "P"} THEN "RGBA" ELSE "RGB"
    ELSE im.mode

\* lines 302-305
FallbackResized(square, simple_size) ==
    IF <<square.width, square.height>> # <<simple_size, simple_size>>
    THEN resize(square, simple_size, simple_size)
    ELSE square

\* lines 291-315: the steps of the fallback procedure
FallbackPlan(im, square, simple_size) ==
    (IF im.width # im.height THEN <<"crop">> ELSE <<>>)
    \o (IF <<square.width, square.height>> # <<simple_size, simple_size>>
        THEN <<"resize">> ELSE <<>>)
    \o (IF im.mode \notin {"RGB", "RGBA"} THEN <<"convert">> ELSE <<>>)
    \o <<"save">>

\* lines 286-321: the fallback procedure, writing to the same stream;
\* resized.save(output, format='ICO', bitmap_format='bmp')
IcoFallback(im, output, fail, wrote) ==
    Run("fallback", "ICO", FallbackPlan(im, square_img(im), SimpleSize(im)), fail, wrote,
        output, SimpleSize(im), SquareBox(im),
        convert(FallbackResized(square_img(im), SimpleSize(im)), FallbackMode(im)),
        <<>>, "")

\* what _convert_to_ico hands back: whether it raised, its return value, the
\* stream, the attempts it made
Returned(raised, ret, output, attempts) ==
    [raised |-> raised, ret |-> ret, output |-> output, attempts |-> attempts]

\* the fallback does not handle its own exception
MutAfterFallback(p, f) == Returned(~f.ok, f.ok, f.output, <<p.attempt, f.attempt>>)

\* lines 282-321: the handler of the exception of the primary procedure
AfterFallback(p, f) == Returned(FALSE, f.ok, f.output, <<p.attempt, f.attempt>>)

\* the fallback runs after a primary procedure that succeeded, too
MutAfterPrimary(p, im, o) ==
    AfterFallback(p, IcoFallback(im, p.output, o.fail2, o.wrote2))

\* lines 278 and 282-286: return True, or the fallback after an exception
AfterPrimary(p, im, o) ==
    IF p.ok THEN Returned(FALSE, TRUE, p.output, <<p.attempt>>)
    ELSE AfterFallback(p, IcoFallback(im, p.output, o.fail2, o.wrote2))

\* lines 194-321
convert_to_ico(im, output, o) ==
    AfterPrimary(IcoPrimary(im, output, o.fail1, o.wrote1), im, o)

\* Image.save(output, format='ICO', ...), lines 263-273 and 315: the sizes
\* of the images the ICO encoder writes for attempt a.  They are the sizes of
\* its sizes argument and, when there is none, of Pillow's default list, in
\* both cases without those larger than the image saved.
IcoFrames(a) ==
    IF a.sizes # <<>>
    THEN {a.sizes[k] : k \in {j \in 1..Len(a.sizes) :
                                  a.sizes[j][1] <= a.enc.width /\ a.sizes[j][2] <= a.enc.height}}
    ELSE {<<s, s>> : s \in {d \in {16, 24, 32, 48, 64, 128, 256} :
                               d <= a.enc.width /\ d <= a.enc.height}}

----------------------------------------------------------------------------
(* ImageConverter._convert_to_jpeg, _convert_to_pdf and the generic save *)

\* what a procedure of one attempt hands back
Single(raised, r) == Returned(raised, r.ok, r.output, <<r.attempt>>)

\* JpegPlan compositing whatever the mode
MutJpegPlan(im) == <<"new", "paste", "save">>

\* lines 328-336: the steps of the JPEG procedure
JpegPlan(im) ==
    (IF im.mode \in {"RGBA", "LA", "P"}
     THEN <<"new">> \o (IF im.mode = "P" THEN <<"convert">> ELSE <<>>)
          \o (IF im.mode \in {"RGBA", "P"} THEN <<"split">> ELSE <<>>) \o <<"paste">>
     ELSE <<>>)
    \o <<"save">>

\* JpegImage with a background of the transposed size
MutJpegImage(im) ==
    IF im.mode \in {"RGBA", "LA", "P"}
    THEN PixelBuffer(im.height, im.width, "RGB", FALSE)
    ELSE im

\* lines 328-334: the image saved, the white background when the buffer is
\* composited on it
JpegImage(im) ==
    IF im.mode \in {"RGBA", "LA", "P"}
    THEN PixelBuffer(im.width, im.height, "RGB", FALSE)
    ELSE im

\* line 333: the mask of the paste
JpegMask(im) ==
    IF im.mode \notin {"RGBA", "LA", "P"} THEN ""
    ELSE IF im.mode \in {"RGBA", "P"} THEN "alpha" ELSE "none"

\* lines 324-340
convert_to_jpeg(im, output, pil_format, o) ==
    Single(FALSE, Run("jpeg", pil_format, JpegPlan(im), o.fail1, o.wrote1, output, 0, <<>>,
                      JpegImage(im), <<>>, JpegMask(im)))

\* lines 343-352
convert_to_pdf(im, output, o) ==
    Single(FALSE, Run("pdf", "PDF",
                      (IF im.mode # "RGB" THEN <<"convert">> ELSE <<>>) \o <<"save">>,
                      o.fail1, o.wrote1, output, 0, <<>>, convert(im, "RGB"), <<>>, ""))

\* lines 180-181: img.save(output, format=pil_format, optimize=True); its
\* exception is not handled here
generic_save(im, output, pil_format, o) ==
    Single(o.fail1 = "save",
           Run("generic", pil_format, <<"save">>, o.fail1, o.wrote1, output, 0, <<>>, im,
               <<>>, ""))

----------------------------------------------------------------------------
(* ImageConverter.convert_to_format *)

\* The result (success, buffer, message); escaped tells that an exception
\* left the function instead.
Result(escaped, success, buffer, message, attempts) ==
    [escaped |-> escaped, success |-> success, buffer |-> buffer, message |-> message,
     attempts |-> attempts]

\* no handler: the exception leaves convert_to_format
MutExceptHandler(r, format_name, err) ==
    Result(TRUE, FALSE, <<>>, <<>>, r.attempts)

\* lines 189-191: the handler of every exception of the body
ExceptHandler(r, format_name, err) ==
    Result(FALSE, FALSE, <<>>, <<"ConversionError", err>>, r.attempts)

\* Dispatch without the branch for JPEG
MutDispatch(im, format_name, output, o) ==
    IF format_name = "ICO" THEN convert_to_ico(im, output, o)
    ELSE IF format_name = "PDF" THEN convert_to_pdf(im, output, o)
    ELSE generic_save(im, output, FORMAT_MAP[format_name][1], o)

\* lines 173-181: the dispatch on the format name
Dispatch(im, format_name, output, o) ==
    IF format_name = "ICO" THEN convert_to_ico(im, output, o)
    ELSE IF format_name = "JPEG" THEN convert_to_jpeg(im, output, FORMAT_MAP[format_name][1], o)
    ELSE IF format_name = "PDF" THEN convert_to_pdf(im, output, o)
    ELSE generic_save(im, output, FORMAT_MAP[format_name][1], o)

\* lines 183-191: after the dispatch
AfterDispatch(r, format_name, err) ==
    IF r.raised THEN ExceptHandler(r, format_name, err)
    ELSE IF ~r.ret
    THEN Result(FALSE, FALSE, <<>>, <<"NotConverted", format_name>>, r.attempts)
    ELSE Result(FALSE, TRUE, r.output, <<>>, r.attempts)

\* convert_to_format without the test of line 166
Mut_convert_to_format(im, format_name, o) ==
    AfterDispatch(IF format_name \in DOMAIN FORMAT_MAP
                  THEN Dispatch(im, format_name, <<>>, o)
                  ELSE generic_save(im, <<>>, format_name, o),
                  format_name, o.err)

\* lines 157-191
convert_to_format(im, format_name, o) ==
    IF format_name \notin DOMAIN FORMAT_MAP
    THEN Result(FALSE, FALSE, <<>>, <<"Unsupported", format_name>>, <<>>)
    ELSE AfterDispatch(Dispatch(im, format_name, <<>>, o), format_name, o.err)

----------------------------------------------------------------------------
(* The environment of one call: the step that raises in the first attempt  *)
(* (fail1) and in the fallback of the icon encoder (fail2), whether a save *)
(* that raises has written bytes before (wrote1, wrote2), and the text of  *)
(* the exception (err).                                                    *)

Oracle(f1, w1, f2, w2, e) == [fail1 |-> f1, wrote1 |-> w1, fail2 |-> f2, wrote2 |-> w2, err |-> e]

\* a step that raises, and for a save whether bytes were written before
Failures(steps) ==
    {<<f, w>> \in (steps \cup {"none", "save"}) \X BOOLEAN : w => f = "save"}

Oracles(format_name) ==
    IF format_name = "ICO"
    THEN {Oracle(a[1], a[2], b[1], b[2], "") :
            a \in Failures({"crop", "resize", "copy", "convert"}),
            b \in Failures({"crop", "resize", "convert"})}
    ELSE IF format_name = "JPEG"
    THEN {Oracle(a[1], a[2], "none", FALSE, "") :
            a \in Failures({"new", "convert", "split", "paste"})}
    ELSE IF format_name = "PDF"
    THEN {Oracle(a[1], a[2], "none", FALSE, "") : a \in Failures({"convert"})}
    ELSE {Oracle(a[1], a[2], "none", FALSE, e) : a \in Failures({}), e \in ErrTexts}

----------------------------------------------------------------------------
(* State *)

NoCall ==
    [called |-> FALSE, fmt |-> "", input |-> NoImage, after |-> NoImage, escaped |-> FALSE,
     success |-> FALSE, buffer |-> <<>>, message |-> <<>>, attempts |-> <<>>]

\* The buffer of the caller once the attempts of a call have run.  No
\* statement of the engine assigns to it: crop, resize, copy and convert
\* return new images (lines 227, 232, 235, 241-251, 302, 306, 311-313), and
\* lines 332, 334 and 347 rebind the parameter of their own procedure.
MutCallerBuffer(im, attempts) ==
    IF attempts = <<>> \/ attempts[Len(attempts)].enc = NoImage THEN im
    ELSE attempts[Len(attempts)].enc

CallerBuffer(im, attempts) == im

\* A call of convert_to_format on buffer im that returned r
Called(im, format_name, r) ==
    [called |-> TRUE, fmt |-> format_name, input |-> im,
     after |-> CallerBuffer(im, r.attempts),
     escaped |-> r.escaped, success |-> r.success, buffer |-> r.buffer,
     message |-> r.message, attempts |-> r.attempts]

CallOf(im, format_name, o) == Called(im, format_name, convert_to_format(im, format_name, o))

\* ImageValidator.validate_image, lines 125-136.  format is img.format, the
\* format the decoder recognised, "" when it has none.
MutValidateImage(im, format) ==
    IF im.width < 1 \/ im.height < 1 THEN FALSE
    ELSE IF format = "" THEN FALSE
    ELSE TRUE

validate_image(im, format) ==
    IF im.width > MAX_IMAGE_DIMENSION \/ im.height > MAX_IMAGE_DIMENSION THEN FALSE
    ELSE IF im.width < 1 \/ im.height < 1 THEN FALSE
    ELSE IF format = "" THEN FALSE
    ELSE TRUE

\* Buffers the engine is called with
Buffers ==
    {PixelBuffer(w, h, m, t) : w \in DimSamples, h \in DimSamples, m \in Modes, t \in BOOLEAN}

EmptyData == [photo |-> NoImage, original_format |-> "", selected_formats |-> <<>>]

\* The locals of handle_conversion_completion: photo is photo_bytes, img the
\* image opened from it at line 564; sent lists the documents it delivered.
IdleBatch ==
    [pc |-> "idle", photo |-> NoImage, img |-> NoImage, formats |-> <<>>, i |-> 0,
     successful_conversions |-> 0, failed_conversions |-> <<>>, sent |-> <<>>,
     outcome |-> ""]

\* The engine called directly: one buffer, any format identifier
Init ==
    /\ img \in {b \in Buffers : validate_image(b, "PNG")}
    /\ call = NoCall
    /\ fsm_state = "None"
    /\ data = EmptyData
    /\ batch = IdleBatch
    /\ notice = ""

\* await ImageConverter.convert_to_format(img, fmt)
Convert(format_name, o) ==
    /\ ~call.called
    /\ call' = CallOf(img, format_name, o)
    /\ img' = call'.after
    /\ UNCHANGED <<fsm_state, data, batch, notice>>

\* the caller consumes the result and drops it
Discard ==
    /\ call.called
    /\ call' = NoCall
    /\ UNCHANGED <<img, fsm_state, data, batch, notice>>

Next ==
    \/ \E format_name \in FormatIds : \E o \in Oracles(format_name) : Convert(format_name, o)
    \/ Discard

Spec == Init /\ [][Next]_vars

----------------------------------------------------------------------------
(* Properties of the engine *)

Base(im) == Min(im.width, im.height)

LastAttempt == call.attempts[Len(call.attempts)]

IcoCall == call.called /\ call.fmt = "ICO"

PrimaryFailed == IcoCall /\ ~call.attempts[1].ok

\* C1: convert_to_format always returns a (success, buffer, message) result:
\* no exception escapes, whichever step raises and whatever the format
\* identifier, and a conversion that failed is returned with success = False
\* and a non-empty message.
C1_NeverRaises ==
    call.called =>
        /\ ~call.escaped
        /\ call.success \in BOOLEAN
        /\ call.success =>
            /\ call.attempts # <<>>
            /\ LastAttempt.ok
            /\ call.message = <<>>
        /\ ~call.success => call.message # <<>>
        /\ (call.attempts = <<>> \/ ~LastAttempt.ok) => ~call.success

\* a generic save raised, with an empty exception text, and the call
\* returned a failure
C1_Witness ==
    /\ call.called
    /\ call.fmt = "PNG"
    /\ call.attempts # <<>>
    /\ ~call.attempts[1].ok
    /\ ~call.success
    /\ call.message = <<"ConversionError", "">>

C4_IconEncodingExhausted ==
    (PrimaryFailed /\ Len(call.attempts) >= 2 /\ ~call.attempts[2].ok) =>
        /\ ~call.success
        /\ ~call.escaped
        /\ call.message = <<"NotConverted", "ICO">>
        /\ call.buffer = <<>>
        /\ Len(call.attempts) = 2

\* both procedures raised in their save
C4_Witness ==
    /\ PrimaryFailed
    /\ Len(call.attempts) = 2
    /\ call.attempts[1].ops[Len(call.attempts[1].ops)] = "save"
    /\ ~call.attempts[2].ok
    /\ call.attempts[2].ops[Len(call.attempts[2].ops)] = "save"
    /\ ~call.success

Saves(a) == Cardinality({k \in 1..Len(a.ops) : a.ops[k] = "save"})

\* C5: in one call every format other than ICO makes at most one attempt and
\* fails on its first error; ICO makes at most two, the second being the
\* fallback, made if and only if the primary failed; no attempt saves twice.
C5_RetryPolicy ==
    call.called =>
        /\ \A k \in 1..Len(call.attempts) : Saves(call.attempts[k]) <= 1
        /\ call.fmt # "ICO" =>
            /\ Len(call.attempts) <= 1
            /\ \A k \in 1..Len(call.attempts) :
                /\ call.attempts[k].proc \notin {"primary", "fallback"}
                /\ ~call.attempts[k].ok => ~call.success
        /\ call.fmt = "ICO" =>
            /\ Len(call.attempts) \in {1, 2}
            /\ call.attempts[1].proc = "primary"
            /\ Len(call.attempts) = 2 <=> ~call.attempts[1].ok
            /\ Len(call.attempts) = 2 => call.attempts[2].proc = "fallback"

\* a JPEG conversion whose compositing raised: one attempt, no save, failure
C5_Witness ==
    /\ call.called
    /\ call.fmt = "JPEG"
    /\ Len(call.attempts) = 1
    /\ call.attempts[1].ops[Len(call.attempts[1].ops)] = "paste"
    /\ ~call.attempts[1].ok
    /\ ~call.success

\* C6: the buffer of a successful result holds the bytes of the one attempt
\* that succeeded and nothing else, and the buffer of a failure is empty.
C6_NoPartialResults ==
    call.called =>
        /\ call.success =>
            /\ Len(call.buffer) = 1
            /\ call.buffer[1].complete
            /\ call.buffer[1].by = LastAttempt.proc
        /\ ~call.success => call.buffer = <<>>

TableSize(base) ==
    IF base >= 256 THEN 256
    ELSE IF base >= 128 THEN 128
    ELSE IF base >= 64 THEN 64
    ELSE IF base >= 32 THEN 32
    ELSE Max(base, 16)

\* C8: the size the primary icon procedure selects is the one of the
\* threshold table for base = min(width, height): 500x500 selects 256,
\* 100x150 selects 64 and 10x10 selects 16.
C8_IcoSizeSelection ==
    IcoCall =>
        /\ call.attempts[1].proc = "primary"
        /\ call.attempts[1].size = TableSize(Base(call.input))
        /\ (call.input.width = 500 /\ call.input.height = 500) => call.attempts[1].size = 256
        /\ (call.input.width = 100 /\ call.input.height = 150) => call.attempts[1].size = 64
        /\ (call.input.width = 10 /\ call.input.height = 10) => call.attempts[1].size = 16
        /\ call.attempts[1].ok =>
            /\ call.attempts[1].enc.width = call.attempts[1].size
            /\ call.attempts[1].enc.height = call.attempts[1].size

\* a 100x150 buffer was saved as a 64x64 icon by the primary procedure
C8_Witness ==
    /\ IcoCall
    /\ call.input.width = 100
    /\ call.input.height = 150
    /\ call.attempts[1].ok
    /\ call.attempts[1].size = 64
    /\ call.success

\* the crop box of the specification: offset (dim - base) / 2 on the larger
\* axis, 0 on the other
CentreBox(im) ==
    LET base == Base(im)
        x == IF im.width > im.height THEN (im.width - base) \div 2 ELSE 0
        y == IF im.height > im.width THEN (im.height - base) \div 2 ELSE 0
    IN  <<x, y, x + base, y + base>>

\* a non-square buffer: the attempt crops first, to the centre square
CropsFirst(a, im) ==
    /\ a.ops # <<>>
    /\ a.ops[1] = "crop"
    /\ \A k \in 2..Len(a.ops) : a.ops[k] # "crop"
    /\ a.box = CentreBox(im)
    /\ a.box[3] - a.box[1] = Base(im)
    /\ a.box[4] - a.box[2] = Base(im)
    /\ (im.width = 400 /\ im.height = 300) => a.box = <<50, 0, 350, 300>>

\* C9 as stated: for a non-square buffer both icon procedures crop the
\* centre square of side base before any resize, and the margins cut on the
\* two sides of the larger axis are equal.
C9_SymmetricCrop ==
    (IcoCall /\ call.input.width # call.input.height) =>
        \A k \in 1..Len(call.attempts) :
            /\ CropsFirst(call.attempts[k], call.input)
            /\ call.attempts[k].box[1] = call.input.width - call.attempts[k].box[3]
            /\ call.attempts[k].box[2] = call.input.height - call.attempts[k].box[4]

\* C9 amended: for a non-square buffer both icon procedures crop the centre
\* square of side base before any resize, at offset (dim - base) div 2 on
\* the larger axis and 0 on the other; the margin cut after the square is
\* the margin before it, or one more when dim - base is odd.
C9_CentreCrop ==
    (IcoCall /\ call.input.width # call.input.height) =>
        \A k \in 1..Len(call.attempts) :
            /\ CropsFirst(call.attempts[k], call.input)
            /\ (call.input.width - call.attempts[k].box[3]) - call.attempts[k].box[1]
                   = (call.input.width - Base(call.input)) % 2
            /\ (call.input.height - call.attempts[k].box[4]) - call.attempts[k].box[2]
                   = (call.input.height - Base(call.input)) % 2

\* a 400x300 buffer whose primary procedure raised in its resize: both
\* procedures cropped the box (50, 0, 350, 300)
C9_Witness ==
    /\ IcoCall
    /\ call.input.width = 400
    /\ call.input.height = 300
    /\ Len(call.attempts) = 2
    /\ call.attempts[1].ops = <<"crop", "resize">>
    /\ call.attempts[1].box = <<50, 0, 350, 300>>
    /\ call.attempts[2].box = <<50, 0, 350, 300>>
    /\ call.attempts[2].ok

\* C10: for a format identifier that is not a key of FORMAT_MAP the call
\* returns the failure of line 167, runs no encoder and no operation on the
\* buffer, and leaves the buffer as it was.
C10_UnsupportedFormat ==
    (call.called /\ call.fmt \notin DOMAIN FORMAT_MAP) =>
        /\ ~call.success
        /\ ~call.escaped
        /\ call.message = <<"Unsupported", call.fmt>>
        /\ call.attempts = <<>>
        /\ call.buffer = <<>>
        /\ call.after = call.input
        /\ img = call.input

\* the engine was called with "XYZ"
C10_Witness ==
    /\ call.called
    /\ call.fmt = "XYZ"
    /\ ~call.success
    /\ call.message[1] = "Unsupported"

SameSize(a, b) == a.width = b.width /\ a.height = b.height

\* C13: for every supported format other than ICO the image handed to the
\* encoder, and every image written to the stream, has the width and the
\* height of the input; no attempt crops or resizes.
C13_DimensionsPreserved ==
    (call.called /\ call.fmt \in DOMAIN FORMAT_MAP \ {"ICO"}) =>
        /\ call.attempts # <<>>
        /\ \A k \in 1..Len(call.attempts) :
             /\ ~InSeq("crop", call.attempts[k].ops)
             /\ ~InSeq("resize", call.attempts[k].ops)
             /\ call.attempts[k].enc # NoImage => SameSize(call.attempts[k].enc, call.input)
        /\ \A k \in 1..Len(call.buffer) : SameSize(call.buffer[k], call.input)

\* a 400x300 RGBA buffer converted to JPEG: the background composited on
\* is 400x300
C13_Witness ==
    /\ call.called
    /\ call.fmt = "JPEG"
    /\ call.success
    /\ call.input.mode = "RGBA"
    /\ call.input.width = 400
    /\ call.input.height = 300
    /\ Len(call.buffer) = 1
    /\ call.buffer[1].width = 400
    /\ call.buffer[1].height = 300

\* C14: a JPEG conversion of a buffer of mode RGBA, LA or P composites it on
\* an opaque white background of the same size with the alpha channel of the
\* buffer (the transparency of the palette) as the mask of the paste, and
\* hands the encoder an RGB image.
C14_JpegFlattening ==
    (call.called /\ call.fmt = "JPEG" /\ call.input.mode \in {"RGBA", "LA", "P"}) =>
        \A k \in 1..Len(call.attempts) :
            /\ InSeq("paste", call.attempts[k].ops) => call.attempts[k].mask = "alpha"
            /\ call.attempts[k].enc # NoImage =>
                 /\ InSeq("paste", call.attempts[k].ops)
                 /\ call.attempts[k].enc =
                        PixelBuffer(call.input.width, call.input.height, "RGB", FALSE)

\* C15: a JPEG conversion of an RGB buffer composites nothing: it makes no
\* background and no paste, and the image handed to the encoder is the input,
\* so that the stream holds the direct JPEG encoding of the input.
C15_OpaqueIdentity ==
    (call.called /\ call.fmt = "JPEG" /\ call.input.mode = "RGB") =>
        /\ \A k \in 1..Len(call.attempts) :
             /\ ~InSeq("new", call.attempts[k].ops)
             /\ ~InSeq("paste", call.attempts[k].ops)
             /\ ~InSeq("convert", call.attempts[k].ops)
             /\ call.attempts[k].mask = ""
             /\ call.attempts[k].enc # NoImage => call.attempts[k].enc = call.input
        /\ call.success => call.buffer = <<Chunk("jpeg", "JPEG", call.input, TRUE)>>

\* an RGB buffer converted to JPEG with the one step of the save
C15_Witness ==
    /\ call.called
    /\ call.fmt = "JPEG"
    /\ call.input.mode = "RGB"
    /\ call.success
    /\ call.attempts[1].ops = <<"save">>
    /\ call.attempts[1].enc = call.input

\* C16: the image the primary ICO procedure hands to the encoder has the
\* mode of the input when that is RGBA or RGB and mode RGBA for P, L, LA and
\* every other mode, a convert being run exactly in the second case; its
\* mode is always RGB or RGBA.
C16_PrimaryModes ==
    (IcoCall /\ call.attempts[1].enc # NoImage) =>
        /\ call.attempts[1].proc = "primary"
        /\ call.attempts[1].enc.mode =
               IF call.input.mode \in {"RGBA", "RGB"} THEN call.input.mode ELSE "RGBA"
        /\ call.attempts[1].enc.mode \in {"RGB", "RGBA"}
        /\ InSeq("convert", call.attempts[1].ops) <=> call.input.mode \notin {"RGBA", "RGB"}

\* a CMYK buffer saved as RGBA by the primary procedure
C16_Witness ==
    /\ IcoCall
    /\ call.success
    /\ call.input.mode = "CMYK"
    /\ call.attempts[1].ok
    /\ call.attempts[1].enc.mode = "RGBA"

\* the fallback procedure ran up to its save
FallbackSaved ==
    /\ PrimaryFailed
    /\ Len(call.attempts) = 2
    /\ call.attempts[2].enc # NoImage

\* size, crop and resize of the fallback procedure
FallbackGeometry ==
    /\ call.attempts[2].proc = "fallback"
    /\ call.attempts[2].size = Min(256, Base(call.input))
    /\ call.attempts[2].enc.width = Min(256, Base(call.input))
    /\ call.attempts[2].enc.height = Min(256, Base(call.input))
    /\ InSeq("crop", call.attempts[2].ops) <=> call.input.width # call.input.height
    /\ InSeq("crop", call.attempts[2].ops) => call.attempts[2].box = CentreBox(call.input)
    /\ InSeq("resize", call.attempts[2].ops) <=> Base(call.input) > 256

\* C17 as stated: the fallback ICO procedure takes min(256, base) as size,
\* crops the centre square, resizes only a square of another size, and hands
\* the encoder mode RGBA if the source mode is LA or P or the source has
\* transparency metadata and mode RGB otherwise, for every source mode.
C17_FallbackModeEverySource ==
    FallbackSaved =>
        /\ FallbackGeometry
        /\ call.attempts[2].enc.mode =
               IF call.input.mode \in {"LA", "P"} \/ call.input.transparency
               THEN "RGBA" ELSE "RGB"

\* C17: the fallback ICO procedure takes min(256, base) as size, crops the
\* centre square, resizes only a square of another size, hands the encoder an
\* RGB or RGBA source in its own mode and converts every other source, to
\* RGBA if its mode is LA or P or it has transparency metadata and to RGB
\* otherwise.
C17_FallbackCoercion ==
    FallbackSaved =>
        /\ FallbackGeometry
        /\ call.attempts[2].enc.mode =
               IF call.input.mode \in {"RGB", "RGBA"} THEN call.input.mode
               ELSE IF call.input.mode \in {"LA", "P"} \/ call.input.transparency
               THEN "RGBA" ELSE "RGB"
        /\ InSeq("convert", call.attempts[2].ops) <=> call.input.mode \notin {"RGB", "RGBA"}

\* a 500x300 L buffer with transparency metadata saved by the fallback as a
\* 256x256 RGBA image
C17_Witness ==
    /\ FallbackSaved
    /\ call.success
    /\ call.input.mode = "L"
    /\ call.input.transparency
    /\ call.input.width = 500
    /\ call.input.height = 300
    /\ call.attempts[2].ops = <<"crop", "resize", "convert", "save">>
    /\ call.attempts[2].enc = PixelBuffer(256, 256, "RGBA", TRUE)

\* the procedure of the format
Strategy(format_name) ==
    CASE format_name = "ICO" -> {"primary", "fallback"}
      [] format_name = "JPEG" -> {"jpeg"}
      [] format_name = "PDF" -> {"pdf"}
      [] OTHER -> {"generic"}

\* C18: a call with a supported identifier runs one procedure: the icon
\* encoder for ICO, the flattening one for JPEG, the document one for PDF,
\* the generic one for every other; the generic one does nothing but save
\* the input as it is, in the container FORMAT_MAP gives.
C18_Dispatch ==
    (call.called /\ call.fmt \in DOMAIN FORMAT_MAP) =>
        /\ call.attempts # <<>>
        /\ \A k \in 1..Len(call.attempts) :
             /\ call.attempts[k].proc \in Strategy(call.fmt)
             /\ call.attempts[k].proc = "generic" =>
                  /\ call.attempts[k].ops = <<"save">>
                  /\ call.attempts[k].enc = call.input
        /\ \A k \in 1..Len(call.buffer) :
             /\ call.buffer[k].by \in Strategy(call.fmt)
             /\ call.buffer[k].container = FORMAT_MAP[call.fmt][1]
        /\ call.fmt # "ICO" => Len(call.attempts) = 1

\* a TIF conversion: the generic procedure, container TIFF
C18_Witness ==
    /\ call.called
    /\ call.fmt = "TIF"
    /\ call.success
    /\ call.attempts[1].proc = "generic"
    /\ call.buffer = <<Chunk("generic", "TIFF", call.input, TRUE)>>

\* C19: a successful ICO conversion wrote exactly one image, of resolution
\* (size, size), size being the one its attempt chose.
C19_SingleResolution ==
    (IcoCall /\ call.success) =>
        IcoFrames(LastAttempt) = {<<LastAttempt.size, LastAttempt.size>>}

----------------------------------------------------------------------------
(* The dialogue of one chat: photo_handler, formats_handler,               *)
(* handle_conversion_completion and cancel_handler.  A call of the         *)
(* Telegram API may raise; whether it does is a choice of the environment. *)
(* handle_conversion_completion is one action per iteration of its loop    *)
(* and one for its report; one run of it is modelled at a time.            *)

\* Files a user uploads, as Image.open decodes them: the third is wider
\* than MAX_IMAGE_DIMENSION, the fourth has no recognised format.
Upload(im, format) == [image |-> im, format |-> format]

UploadSamples ==
    {Upload(PixelBuffer(300, 200, "RGB", FALSE), "PNG"),
     Upload(PixelBuffer(10, 10, "P", TRUE), "GIF"),
     Upload(PixelBuffer(MAX_IMAGE_DIMENSION + 1, 100, "RGB", FALSE), "PNG"),
     Upload(PixelBuffer(64, 64, "RGBA", FALSE), "")}

\* Texts a user sends while formats are awaited, other than the Done button
Texts == {"PNG", "jpeg", "ICO", "xyz"}

\* message.text.strip().upper()
Upper(text) ==
    CASE text = "jpeg" -> "JPEG"
      [] text = "xyz" -> "XYZ"
      [] OTHER -> text

\* The failures of the engine the dialogue is run with: none, the failure
\* of the first attempt in its save after a partial write and, for ICO, the
\* failure of the fallback as well.
DialogueOracles(format_name) ==
    {o \in Oracles(format_name) :
        /\ o.fail1 \in {"none", "save"}
        /\ o.fail2 \in {"none", "save"}
        /\ o.wrote1 = (o.fail1 = "save")
        /\ o.wrote2 = (o.fail2 = "save")
        /\ o.fail1 = "none" => o.fail2 = "none"
        /\ o.err = ""}

InitBot ==
    /\ img = NoImage
    /\ call = NoCall
    /\ fsm_state = "None"
    /\ data = EmptyData
    /\ batch = IdleBatch
    /\ notice = ""

\* state.clear()
Clear ==
    /\ fsm_state' = "None"
    /\ data' = EmptyData

\* lines 428-504.  downloaded is FALSE when get_file, the download or
\* Image.open raises.  The user is told the error of the validation (line
\* 457), that the file could not be processed (479, 504) or what the image
\* is (499).
photo_handler(upload, downloaded) ==
    /\ IF downloaded /\ validate_image(upload.image, upload.format)
       THEN /\ data' = [photo |-> upload.image, original_format |-> upload.format,
                        selected_formats |-> <<>>]
            /\ fsm_state' = "waiting_for_formats"
            /\ notice' = "info"
       ELSE /\ UNCHANGED <<fsm_state, data>>
            /\ notice' = IF downloaded THEN "invalid" ELSE "failed"
    /\ UNCHANGED <<img, call, batch>>

\* formats_handler without the test of line 524
MutFormatsHandler(message_text) ==
    /\ fsm_state = "waiting_for_formats"
    /\ IF ~InSeq(Upper(message_text), SUPPORTED_FORMATS) THEN UNCHANGED data
       ELSE data' = [data EXCEPT !.selected_formats = Append(@, Upper(message_text))]
    /\ UNCHANGED <<img, call, fsm_state, batch, notice>>

\* lines 506-541, a text other than the Done button
formats_handler(message_text) ==
    /\ fsm_state = "waiting_for_formats"
    /\ IF ~InSeq(Upper(message_text), SUPPORTED_FORMATS) THEN UNCHANGED data
       ELSE IF ~InSeq(Upper(message_text), data.selected_formats)
       THEN data' = [data EXCEPT !.selected_formats = Append(@, Upper(message_text))]
       ELSE UNCHANGED data
    /\ UNCHANGED <<img, call, fsm_state, batch, notice>>

\* lines 512-514 and 543-566: the Done button, up to the head of the loop.
\* replied is FALSE when the reply of line 558 raises: it is outside the try
\* of line 563, so the exception leaves the function, past the finally of
\* line 629, to the handler of line 539 (pc and outcome "raised").
handle_conversion_completion(replied) ==
    /\ fsm_state = "waiting_for_formats"
    /\ batch.pc # "loop"
    /\ IF data.selected_formats = <<>>
       THEN UNCHANGED <<fsm_state, data, batch>>
       ELSE IF data.photo = NoImage
       THEN Clear /\ UNCHANGED batch
       ELSE /\ batch' = [pc |-> IF replied THEN "loop" ELSE "raised",
                         photo |-> data.photo,
                         img |-> IF replied THEN data.photo ELSE NoImage,
                         formats |-> data.selected_formats, i |-> 0,
                         successful_conversions |-> 0, failed_conversions |-> <<>>,
                         sent |-> <<>>,
                         outcome |-> IF replied THEN "" ELSE "raised"]
            /\ UNCHANGED <<fsm_state, data>>
    /\ UNCHANGED <<img, call, notice>>

\* lines 585-591: the document sent for format fmt, named converted.<extension>
Document(fmt, extension) == [fmt |-> fmt, filename |-> <<"converted", extension>>]

\* Critical without the finally clause
MutCritical ==
    /\ batch' = [batch EXCEPT !.pc = "done", !.outcome = "critical"]
    /\ UNCHANGED <<fsm_state, data>>

\* lines 617-630: the handler of an exception of the loop or of the report,
\* and the finally clause
Critical ==
    /\ batch' = [batch EXCEPT !.pc = "done", !.outcome = "critical"]
    /\ Clear

\* ConvertAndDeliver keeping for the next iteration the image the engine
\* encoded
MutConvertAndDeliver(fmt, r, delivered) ==
    /\ call' = r
    /\ img' = r.after
    /\ IF r.escaped THEN Critical
       ELSE /\ batch' =
                [batch EXCEPT !.i = @ + 1,
                    !.img = IF r.attempts = <<>> \/ r.attempts[Len(r.attempts)].enc = NoImage
                            THEN r.after ELSE r.attempts[Len(r.attempts)].enc,
                    !.successful_conversions = IF r.success /\ delivered THEN @ + 1 ELSE @,
                    !.sent = IF r.success /\ delivered
                             THEN Append(@, Document(fmt, FORMAT_MAP[fmt][2])) ELSE @,
                    !.failed_conversions =
                        IF r.success /\ delivered THEN @
                        ELSE IF r.success THEN Append(@, <<fmt, <<"SendError">>>>)
                        ELSE Append(@, <<fmt, r.message>>)]
            /\ UNCHANGED <<fsm_state, data>>

\* lines 581-599: the conversion and the delivery of format fmt, r being
\* what convert_to_format did with img, the image every iteration passes.
\* delivered is FALSE when reply_document raises.
ConvertAndDeliver(fmt, r, delivered) ==
    /\ call' = r
    /\ img' = r.after
    /\ IF r.escaped THEN Critical
       ELSE /\ batch' =
                IF r.success /\ delivered
                THEN [batch EXCEPT !.i = @ + 1, !.img = r.after,
                        !.successful_conversions = @ + 1,
                        !.sent = Append(@, Document(fmt, FORMAT_MAP[fmt][2]))]
                ELSE IF r.success
                THEN [batch EXCEPT !.i = @ + 1, !.img = r.after,
                        !.failed_conversions = Append(@, <<fmt, <<"SendError">>>>)]
                ELSE [batch EXCEPT !.i = @ + 1, !.img = r.after,
                        !.failed_conversions = Append(@, <<fmt, r.message>>)]
            /\ UNCHANGED <<fsm_state, data>>

\* lines 568-599: one iteration of the loop.  progress is "edited" when
\* edit_text succeeds, "replied" when it raises and the reply of line 576
\* succeeds, "raised" when that reply raises too.
Iterate ==
    /\ batch.pc = "loop"
    /\ batch.i < Len(batch.formats)
    /\ UNCHANGED notice
    /\ \E progress \in {"edited", "replied", "raised"} :
         IF progress = "raised"
         THEN Critical /\ UNCHANGED <<img, call>>
         ELSE \E delivered \in BOOLEAN :
              \E o \in DialogueOracles(batch.formats[batch.i + 1]) :
                 ConvertAndDeliver(batch.formats[batch.i + 1],
                                   CallOf(batch.img, batch.formats[batch.i + 1], o),
                                   delivered)

\* lines 601-630: the report after the loop.  reported is FALSE when
\* edit_text and the reply of line 615 both raise.
Report(reported) ==
    /\ batch.pc = "loop"
    /\ batch.i = Len(batch.formats)
    /\ IF reported
       THEN /\ batch' = [batch EXCEPT !.pc = "done", !.outcome = "reported"]
            /\ Clear
       ELSE Critical
    /\ UNCHANGED <<img, call, notice>>

\* lines 632-642
cancel_handler ==
    /\ IF fsm_state # "None" THEN Clear ELSE UNCHANGED <<fsm_state, data>>
    /\ UNCHANGED <<img, call, batch, notice>>

NextBot ==
    \/ \E upload \in UploadSamples, downloaded \in BOOLEAN : photo_handler(upload, downloaded)
    \/ \E message_text \in Texts : formats_handler(message_text)
    \/ \E replied \in BOOLEAN : handle_conversion_completion(replied)
    \/ Iterate
    \/ \E reported \in BOOLEAN : Report(reported)
    \/ cancel_handler

SpecBot == InitBot /\ [][NextBot]_vars

\* C2: a batch of N selected formats that has ended has attempted every one
\* of its formats and counted each once: successful + failed = N, whatever
\* conversion, delivery or progress update failed on the way.
C2_BatchYieldsN ==
    batch.pc = "done" =>
        /\ batch.i = Len(batch.formats)
        /\ batch.successful_conversions + Len(batch.failed_conversions) = Len(batch.formats)

Admitted(im) ==
    /\ 1 <= im.width /\ im.width <= 4096
    /\ 1 <= im.height /\ im.height <= 4096

\* the image of the session, the image of the batch and the image the
\* engine was called on passed the validation
AdmittedOnly ==
    /\ data.photo # NoImage => Admitted(data.photo) /\ data.original_format # ""
    /\ batch.pc = "loop" => Admitted(batch.photo) /\ batch.img = batch.photo
    /\ call.called => Admitted(call.input)

\* an upload the validation rejects is reported and changes neither the
\* state of the dialogue, nor its data, nor the batch, nor the engine
RejectedUploadKeepsSession ==
    \A upload \in UploadSamples :
        (photo_handler(upload, TRUE) /\ ~(Admitted(upload.image) /\ upload.format # "")) =>
            /\ notice' = "invalid"
            /\ UNCHANGED <<img, call, fsm_state, data, batch>>

\* C20: convert_to_format is called only on an image that passed the
\* validation (1 <= width, height <= 4096 and a recognised format); an
\* upload that fails it is reported, reaches neither the session nor the
\* engine and leaves the stored image and the selection as they were.
C20_AdmissionBeforeConversion ==
    []AdmittedOnly /\ [][RejectedUploadKeepsSession]_vars

\* an upload was rejected while the session held an image and a selection,
\* and the batch then converted the image of the session
C20_Witness ==
    /\ notice = "invalid"
    /\ call.called
    /\ call.success
    /\ call.input = PixelBuffer(300, 200, "RGB", FALSE)
    /\ batch.pc = "loop"
    /\ batch.formats = <<"PNG">>

NoDuplicates(seq) == \A j \in 1..Len(seq) : \A k \in 1..Len(seq) : seq[j] = seq[k] => j = k

\* the selection holds supported identifiers, each once
SelectionInv ==
    /\ NoDuplicates(data.selected_formats)
    /\ \A k \in 1..Len(data.selected_formats) :
         InSeq(data.selected_formats[k], SUPPORTED_FORMATS)

\* a step leaves the selection, empties it or appends one identifier that
\* is supported and not selected yet; a text that is unsupported or already
\* selected leaves it, a valid upload empties it
SelectionStep ==
    /\ \/ data'.selected_formats = data.selected_formats
       \/ data'.selected_formats = <<>>
       \/ /\ Len(data'.selected_formats) = Len(data.selected_formats) + 1
          /\ SubSeq(data'.selected_formats, 1, Len(data.selected_formats))
                = data.selected_formats
          /\ ~InSeq(data'.selected_formats[Len(data'.selected_formats)],
                    data.selected_formats)
          /\ InSeq(data'.selected_formats[Len(data'.selected_formats)], SUPPORTED_FORMATS)
    /\ (batch' = batch /\ call' = call /\ notice' = notice) =>
         \A message_text \in Texts :
            formats_handler(message_text) =>
                IF \/ ~InSeq(Upper(message_text), SUPPORTED_FORMATS)
                   \/ InSeq(Upper(message_text), data.selected_formats)
                THEN UNCHANGED data
                ELSE data'.selected_formats
                        = Append(data.selected_formats, Upper(message_text))
    /\ (batch' = batch /\ call' = call /\ notice' = "info") =>
         \A upload \in UploadSamples :
            (Admitted(upload.image) /\ upload.format # "" /\ photo_handler(upload, TRUE))
            => data'.selected_formats = <<>>

\* C21: the selection of the session never holds an identifier twice nor one
\* outside SUPPORTED_FORMATS and grows only at its end, in the order of first
\* selection; selecting a format that is selected already or unsupported
\* leaves it unchanged, and a valid upload resets it to empty.
C21_SelectionList ==
    []SelectionInv /\ [][SelectionStep]_vars

\* ICO, PNG and JPEG selected in that order, the user having sent other
\* uploads and texts before
C21_Witness ==
    /\ fsm_state = "waiting_for_formats"
    /\ data.selected_formats = <<"ICO", "PNG", "JPEG">>
    /\ data.photo = PixelBuffer(10, 10, "P", TRUE)
    /\ notice = "invalid"

\* a step of /cancel or of a Done that starts no batch: /cancel clears an
\* active session and changes nothing without one, Done with an empty
\* selection changes nothing, Done without image data clears the session
LifecycleOther ==
    (batch' = batch /\ call' = call /\ notice' = notice) =>
        /\ cancel_handler =>
             IF fsm_state # "None"
             THEN fsm_state' = "None" /\ data' = EmptyData
             ELSE UNCHANGED <<fsm_state, data>>
        /\ \A replied \in BOOLEAN :
             handle_conversion_completion(replied) =>
                IF data.selected_formats = <<>> THEN UNCHANGED <<fsm_state, data>>
                ELSE data.photo = NoImage => (fsm_state' = "None" /\ data' = EmptyData)

\* a step that ends a run of handle_conversion_completion made with a
\* selection and image data
BatchEnds == batch' # batch /\ batch'.pc \in {"done", "raised"}

StartedOnSession ==
    /\ batch.photo = data.photo
    /\ Len(batch.formats) <= Len(data.selected_formats)
    /\ SubSeq(data.selected_formats, 1, Len(batch.formats)) = batch.formats

\* C23: the session of an uploaded image (image, selection, state
\* waiting_for_formats) is cleared only by /cancel or by the end of a batch
\* that was started on that image: the end of a batch started for an earlier
\* image never clears it.
C23_NoStaleWipe ==
    [][(/\ fsm_state = "waiting_for_formats"
        /\ data.photo # NoImage
        /\ fsm_state' = "None"
        /\ data' = EmptyData
        /\ batch' # batch)
       => (batch.pc = "loop" /\ batch'.pc = "done" /\ StartedOnSession)]_vars

----------------------------------------------------------------------------
(* The dialogue with the whole menu: the user sends any identifier of the  *)
(* keyboard made from SUPPORTED_FORMATS (line 483), and selects at most    *)
(* MaxSelected of them for one image.                                      *)

MaxSelected == 1

\* the buttons of the keyboard of line 483
MenuTexts == {SUPPORTED_FORMATS[k] : k \in 1..Len(SUPPORTED_FORMATS)}

NextMenu ==
    \/ \E upload \in UploadSamples, downloaded \in BOOLEAN : photo_handler(upload, downloaded)
    \/ \E message_text \in MenuTexts :
         Len(data.selected_formats) < MaxSelected /\ formats_handler(message_text)
    \/ \E replied \in BOOLEAN : handle_conversion_completion(replied)
    \/ Iterate
    \/ \E reported \in BOOLEAN : Report(reported)
    \/ cancel_handler

SpecMenu == InitBot /\ [][NextMenu]_vars

\* the extension the table of formats gives each identifier
TableExtension(fmt) ==
    CASE fmt = "PNG" -> "png"
      [] fmt = "JPEG" -> "jpg"
      [] fmt = "WEBP" -> "webp"
      [] fmt = "BMP" -> "bmp"
      [] fmt = "TIF" -> "tif"
      [] fmt = "TIFF" -> "tiff"
      [] fmt = "GIF" -> "gif"
      [] fmt = "ICO" -> "ico"
      [] fmt = "PDF" -> "pdf"
      [] fmt = "JP2" -> "jp2"
      [] fmt = "APNG" -> "apng"
      [] OTHER -> ""

\* C24: every identifier of SUPPORTED_FORMATS is a key of FORMAT_MAP, mapped
\* to one (container, extension) pair; no conversion of a batch fails as
\* unsupported, and every document a batch delivers is named converted.<ext>
\* with the extension of the table for its identifier.
C24_MenuCoversMap ==
    /\ \A k \in 1..Len(SUPPORTED_FORMATS) :
         /\ SUPPORTED_FORMATS[k] \in DOMAIN FORMAT_MAP
         /\ Len(FORMAT_MAP[SUPPORTED_FORMATS[k]]) = 2
         /\ FORMAT_MAP[SUPPORTED_FORMATS[k]][2] = TableExtension(SUPPORTED_FORMATS[k])
    /\ \A k \in 1..Len(data.selected_formats) : data.selected_formats[k] \in DOMAIN FORMAT_MAP
    /\ (batch.pc = "loop" /\ batch.i > 0) =>
         (call.message = <<>> \/ call.message[1] # "Unsupported")
    /\ \A k \in 1..Len(batch.failed_conversions) :
         batch.failed_conversions[k][2][1] # "Unsupported"
    /\ \A k \in 1..Len(batch.sent) :
         /\ InSeq(batch.sent[k].fmt, batch.formats)
         /\ batch.sent[k].filename = <<"converted", TableExtension(batch.sent[k].fmt)>>

\* APNG selected, converted and delivered as converted.apng
C24_Witness ==
    /\ batch.pc = "done"
    /\ batch.outcome = "reported"
    /\ batch.formats = <<"APNG">>
    /\ call.fmt = "APNG"
    /\ call.success
    /\ batch.sent = <<Document("APNG", "apng")>>

====
